---- MODULE Spec2Model ----
(***************************************************************************)
(* Model of setup.py, the packaging descriptor of claude-ai-agents.        *)
(*                                                                         *)
(* The script is a straight-line program: it opens and reads README.md,    *)
(* opens requirements.txt and filters its lines into the requirement list, *)
(* and then calls setuptools.setup() once with a fixed set of keyword      *)
(* arguments.  The file system is the environment: each of the two files   *)
(* is absent, present but not decodable as UTF-8, or present with some     *)
(* text.  Text is a sequence of one-character strings, so the string       *)
(* methods the script uses (strip, startswith, line iteration) are         *)
(* computed character by character.                                        *)
(***************************************************************************)
EXTENDS Integers, Sequences, FiniteSets, TLC

\* Longest requirements.txt, in characters, that the model enumerates.
MaxFileLen == 5

\* Characters a modelled requirements.txt is made of: a name character, the
\* comment marker, a blank and the line terminator.
Chars == {"a", "#", " ", "\n"}

\* str.strip() with no argument removes these (the ASCII whitespace).
Whitespace == {" ", "\t", "\n", "\r", "\f"}

README == "README.md"
REQUIREMENTS == "requirements.txt"

Texts == UNION {[1..n -> Chars] : n \in 0..MaxFileLen}

\* README.md texts: empty, and a one-line markdown title.
ReadmeTexts == {<<>>, <<"#", " ", "a", "\n">>}

File(state, text) == [state |-> state, text |-> text]

Absent == File("absent", <<>>)

Undecodable == File("undecodable", <<>>)

\* What find_packages() may return for the working directory.
PackageSets == {{}, {"scripts"}}

VARIABLES
    fs,               \* file name -> File, the working directory
    packagesFound,    \* the result of find_packages()
    pc,               \* the statement about to run: "L4", "L5", "L7", "L8", "L10", "done", "raised"
    fh,               \* the name of the file the current with-block holds open, or "none"
    long_description, \* the module global, once bound
    requirements,     \* the module global, once bound
    bound,            \* the module globals bound so far
    events,           \* the successful open/read/setup operations, in order
    calls,            \* the keyword arguments of every setup() call, in order
    exception         \* the exception that ended the script, or "none"

vars == <<fs, packagesFound, pc, fh, long_description, requirements, bound, events, calls, exception>>

----------------------------------------------------------------------------
(* String methods *)

StartsWith(s, prefix) ==
    /\ Len(s) >= Len(prefix)
    /\ SubSeq(s, 1, Len(prefix)) = prefix

RECURSIVE LStrip(_)
LStrip(s) ==
    IF s # <<>> /\ Head(s) \in Whitespace THEN LStrip(Tail(s)) ELSE s

RECURSIVE RStrip(_)
RStrip(s) ==
    IF s # <<>> /\ s[Len(s)] \in Whitespace THEN RStrip(SubSeq(s, 1, Len(s) - 1)) ELSE s

Strip(s) == LStrip(RStrip(s))

\* Iterating a text-mode file yields its lines, each with its "\n" kept; a
\* last line without "\n" is yielded as it is, and an empty file yields nothing.
RECURSIVE FileLinesFrom(_, _)
FileLinesFrom(text, line) ==
    IF text = <<>>
    THEN IF line = <<>> THEN <<>> ELSE <<line>>
    ELSE IF Head(text) = "\n"
         THEN <<Append(line, "\n")>> \o FileLinesFrom(Tail(text), <<>>)
         ELSE FileLinesFrom(Tail(text), Append(line, Head(text)))

FileLines(text) == FileLinesFrom(text, <<>>)

----------------------------------------------------------------------------
(* The requirement list, line 8 *)

\* The comment test made on the stripped line instead of the raw one.
KeepLine_StripFirst(line) ==
    /\ Strip(line) # <<>>
    /\ ~StartsWith(Strip(line), <<"#">>)

\* The condition of the comprehension: line.strip() and not line.startswith("#")
KeepLine(line) ==
    /\ Strip(line) # <<>>
    /\ ~StartsWith(line, <<"#">>)

\* [line.strip() for line in fh if line.strip() and not line.startswith("#")]
RECURSIVE Requirements(_)
Requirements(lines) ==
    IF lines = <<>>
    THEN <<>>
    ELSE IF KeepLine(Head(lines))
         THEN <<Strip(Head(lines))>> \o Requirements(Tail(lines))
         ELSE Requirements(Tail(lines))

----------------------------------------------------------------------------
(* The keyword arguments of setup(), lines 10-59 *)

Classifiers == <<
    \* Development Status :: 5 - Production/Stable
    <<"D","e","v","e","l","o","p","m","e","n","t"," ","S","t","a","t","u","s"," ",":",":"," ","5"," ","-"," ","P","r","o","d","u","c","t","i","o","n","/","S","t","a","b","l","e">>,
    \* Intended Audience :: Developers
    <<"I","n","t","e","n","d","e","d"," ","A","u","d","i","e","n","c","e"," ",":",":"," ","D","e","v","e","l","o","p","e","r","s">>,
    \* Intended Audience :: Education
    <<"I","n","t","e","n","d","e","d"," ","A","u","d","i","e","n","c","e"," ",":",":"," ","E","d","u","c","a","t","i","o","n">>,
    \* Topic :: Scientific/Engineering :: Artificial Intelligence
    <<"T","o","p","i","c"," ",":",":"," ","S","c","i","e","n","t","i","f","i","c","/","E","n","g","i","n","e","e","r","i","n","g"," ",":",":"," ","A","r","t","i","f","i","c","i","a","l"," ","I","n","t","e","l","l","i","g","e","n","c","e">>,
    \* License :: OSI Approved :: MIT License
    <<"L","i","c","e","n","s","e"," ",":",":"," ","O","S","I"," ","A","p","p","r","o","v","e","d"," ",":",":"," ","M","I","T"," ","L","i","c","e","n","s","e">>,
    \* Programming Language :: Python :: 3
    <<"P","r","o","g","r","a","m","m","i","n","g"," ","L","a","n","g","u","a","g","e"," ",":",":"," ","P","y","t","h","o","n"," ",":",":"," ","3">>,
    \* Programming Language :: Python :: 3.8
    <<"P","r","o","g","r","a","m","m","i","n","g"," ","L","a","n","g","u","a","g","e"," ",":",":"," ","P","y","t","h","o","n"," ",":",":"," ","3",".","8">>,
    \* Programming Language :: Python :: 3.9
    <<"P","r","o","g","r","a","m","m","i","n","g"," ","L","a","n","g","u","a","g","e"," ",":",":"," ","P","y","t","h","o","n"," ",":",":"," ","3",".","9">>,
    \* Programming Language :: Python :: 3.10
    <<"P","r","o","g","r","a","m","m","i","n","g"," ","L","a","n","g","u","a","g","e"," ",":",":"," ","P","y","t","h","o","n"," ",":",":"," ","3",".","1","0">>,
    \* Programming Language :: Python :: 3.11
    <<"P","r","o","g","r","a","m","m","i","n","g"," ","L","a","n","g","u","a","g","e"," ",":",":"," ","P","y","t","h","o","n"," ",":",":"," ","3",".","1","1">>
    >>

\* ">=3.9"
PythonRequires_39 == <<">","=","3",".","9">>

\* ">=3.8"
PythonRequires == <<">","=","3",".","8">>

DevExtras ==
    <<
        \* pytest>=7.0
        <<"p","y","t","e","s","t",">","=","7",".","0">>,
        \* pytest-cov>=4.0
        <<"p","y","t","e","s","t","-","c","o","v",">","=","4",".","0">>,
        \* black>=23.0
        <<"b","l","a","c","k",">","=","2","3",".","0">>,
        \* flake8>=6.0
        <<"f","l","a","k","e","8",">","=","6",".","0">>,
        \* mypy>=1.5
        <<"m","y","p","y",">","=","1",".","5">>
        >>

DocsExtras_WithPytest ==
    <<
        \* pytest>=7.0
        <<"p","y","t","e","s","t",">","=","7",".","0">>,
        \* sphinx>=7.0
        <<"s","p","h","i","n","x",">","=","7",".","0">>,
        \* sphinx-rtd-theme>=1.3
        <<"s","p","h","i","n","x","-","r","t","d","-","t","h","e","m","e",">","=","1",".","3">>
        >>

DocsExtras ==
    <<
        \* sphinx>=7.0
        <<"s","p","h","i","n","x",">","=","7",".","0">>,
        \* sphinx-rtd-theme>=1.3
        <<"s","p","h","i","n","x","-","r","t","d","-","t","h","e","m","e",">","=","1",".","3">>
        >>

ExtrasRequire == [dev |-> DevExtras, docs |-> DocsExtras]

EntryPoints_TwoScripts ==
    [console_scripts |-> <<
        \* claude-agents=scripts.run_demo:main
        <<"c","l","a","u","d","e","-","a","g","e","n","t","s","=","s","c","r","i","p","t","s",".","r","u","n","_","d","e","m","o",":","m","a","i","n">>,
        \* claude-agents-demo=scripts.run_demo:demo
        <<"c","l","a","u","d","e","-","a","g","e","n","t","s","-","d","e","m","o","=","s","c","r","i","p","t","s",".","r","u","n","_","d","e","m","o",":","d","e","m","o">>
        >>]

EntryPoints ==
    [console_scripts |-> <<
        \* claude-agents=scripts.run_demo:main
        <<"c","l","a","u","d","e","-","a","g","e","n","t","s","=","s","c","r","i","p","t","s",".","r","u","n","_","d","e","m","o",":","m","a","i","n">>
        >>]

ProjectUrls ==
    [BugReports |-> "https://github.com/NishantDas0079/Claude-AI-Agents-Professional/issues",
     Source |-> "https://github.com/NishantDas0079/Claude-AI-Agents-Professional",
     Documentation |-> "https://github.com/NishantDas0079/Claude-AI-Agents-Professional/docs"]

InstallRequires_Inline == <<<<"a">>>> \o requirements

\* install_requires=requirements
InstallRequires == requirements

SetupArgs ==
    [name |-> "claude-ai-agents",
     version |-> "1.0.0",
     author |-> "Nishant Das",
     author_email |-> "nishant@example.com",
     description |-> "A comprehensive suite of AI agents for research, code review, visualization, finance, audio analysis, and content creation",
     long_description |-> long_description,
     long_description_content_type |-> "text/markdown",
     url |-> "https://github.com/NishantDas0079/Claude-AI-Agents-Professional",
     packages |-> packagesFound,
     classifiers |-> Classifiers,
     python_requires |-> PythonRequires,
     install_requires |-> InstallRequires,
     extras_require |-> ExtrasRequire,
     entry_points |-> EntryPoints,
     include_package_data |-> TRUE,
     keywords |-> "ai agents, machine learning, data science, visualization, automation",
     project_urls |-> ProjectUrls]

----------------------------------------------------------------------------
(* The script *)

Event(op, file) == [op |-> op, file |-> file]

Init ==
    /\ \E r \in {Absent, Undecodable} \cup {File("text", t) : t \in ReadmeTexts},
          q \in {Absent, Undecodable} \cup {File("text", t) : t \in Texts} :
            fs = (README :> r) @@ (REQUIREMENTS :> q)
    /\ packagesFound \in PackageSets
    /\ pc = "L4"
    /\ fh = "none"
    /\ long_description = <<>>
    /\ requirements = <<>>
    /\ bound = {}
    /\ events = <<>>
    /\ calls = <<>>
    /\ exception = "none"

\* An uncaught exception leaves the with-block, which closes the file, and
\* ends the script.
Raise(e) ==
    /\ exception' = e
    /\ fh' = "none"
    /\ pc' = "raised"

\* A missing README.md replaced by an empty description.
OpenReadme_DefaultDescription ==
    /\ pc = "L4"
    /\ IF fs[README].state = "absent"
       THEN /\ long_description' = <<>>
            /\ pc' = "L7"
            /\ UNCHANGED <<fh, events>>
       ELSE /\ fh' = README
            /\ events' = Append(events, Event("open", README))
            /\ pc' = "L5"
            /\ UNCHANGED long_description
    /\ UNCHANGED <<fs, packagesFound, requirements, bound, calls, exception>>

\* with open("README.md", "r", encoding="utf-8") as fh:
OpenReadme ==
    /\ pc = "L4"
    /\ IF fs[README].state = "absent"
       THEN /\ Raise("FileNotFoundError")
            /\ UNCHANGED events
       ELSE /\ fh' = README
            /\ events' = Append(events, Event("open", README))
            /\ pc' = "L5"
            /\ UNCHANGED exception
    /\ UNCHANGED <<fs, packagesFound, long_description, requirements, bound, calls>>

\*     long_description = fh.read()
ReadReadme ==
    /\ pc = "L5"
    /\ IF fs[fh].state = "undecodable"
       THEN /\ Raise("UnicodeDecodeError")
            /\ UNCHANGED <<long_description, bound, events>>
       ELSE /\ long_description' = fs[fh].text
            /\ bound' = bound \cup {"long_description"}
            /\ events' = Append(events, Event("read", fh))
            /\ fh' = "none"
            /\ pc' = "L7"
            /\ UNCHANGED exception
    /\ UNCHANGED <<fs, packagesFound, requirements, calls>>

\* with open("requirements.txt", "r", encoding="utf-8") as fh:
OpenRequirements ==
    /\ pc = "L7"
    /\ IF fs[REQUIREMENTS].state = "absent"
       THEN /\ Raise("FileNotFoundError")
            /\ UNCHANGED events
       ELSE /\ fh' = REQUIREMENTS
            /\ events' = Append(events, Event("open", REQUIREMENTS))
            /\ pc' = "L8"
            /\ UNCHANGED exception
    /\ UNCHANGED <<fs, packagesFound, long_description, requirements, bound, calls>>

\*     requirements = [line.strip() for line in fh if ...]
ReadRequirements ==
    /\ pc = "L8"
    /\ IF fs[fh].state = "undecodable"
       THEN /\ Raise("UnicodeDecodeError")
            /\ UNCHANGED <<requirements, bound, events>>
       ELSE /\ requirements' = Requirements(FileLines(fs[fh].text))
            /\ bound' = bound \cup {"requirements"}
            /\ events' = Append(events, Event("read", fh))
            /\ fh' = "none"
            /\ pc' = "L10"
            /\ UNCHANGED exception
    /\ UNCHANGED <<fs, packagesFound, long_description, calls>>

\* setup(name=..., ...)
CallSetup ==
    /\ pc = "L10"
    /\ calls' = Append(calls, SetupArgs)
    /\ events' = Append(events, Event("setup", "none"))
    /\ pc' = "done"
    /\ UNCHANGED <<fs, packagesFound, fh, long_description, requirements, bound, exception>>

Next ==
    \/ OpenReadme
    \/ ReadReadme
    \/ OpenRequirements
    \/ ReadRequirements
    \/ CallSetup

Spec == Init /\ [][Next]_vars

----------------------------------------------------------------------------
(* How the packaging tools read the descriptor's strings *)

\* The position of the first c in s, or 0.
IndexOf(s, c) ==
    IF \E i \in 1..Len(s) : s[i] = c
    THEN CHOOSE i \in 1..Len(s) : s[i] = c /\ \A j \in 1..(i - 1) : s[j] # c
    ELSE 0

\* An entry point "name = module:attr".
ParseEntryPoint(e) ==
    LET eq == IndexOf(e, "=")
        target == SubSeq(e, eq + 1, Len(e))
        colon == IndexOf(target, ":")
    IN  [name |-> Strip(SubSeq(e, 1, eq - 1)),
         module |-> Strip(SubSeq(target, 1, colon - 1)),
         attr |-> Strip(SubSeq(target, colon + 1, Len(target)))]

\* The characters that end the project name of a requirement string.
SpecifierChars == {"<", ">", "=", "!", "~", ";", " ", "[", "@"}

\* The project name of a requirement string such as "pytest>=7.0".
RequirementName(r) ==
    IF \E i \in 1..Len(r) : r[i] \in SpecifierChars
    THEN LET end == CHOOSE i \in 1..Len(r) :
                        r[i] \in SpecifierChars /\ \A j \in 1..(i - 1) : r[j] \notin SpecifierChars
         IN  SubSeq(r, 1, end - 1)
    ELSE r

Names(rs) == {RequirementName(rs[i]) : i \in 1..Len(rs)}

Digits == {"0", "1", "2", "3", "4", "5", "6", "7", "8", "9"}

DigitValue(c) ==
    CASE c = "0" -> 0 [] c = "1" -> 1 [] c = "2" -> 2 [] c = "3" -> 3 [] c = "4" -> 4
      [] c = "5" -> 5 [] c = "6" -> 6 [] c = "7" -> 7 [] c = "8" -> 8 [] c = "9" -> 9

RECURSIVE ParseInt(_)
ParseInt(s) ==
    IF s = <<>> THEN 0 ELSE ParseInt(SubSeq(s, 1, Len(s) - 1)) * 10 + DigitValue(s[Len(s)])

\* A release "X.Y" as the sequence of its numbers.
RECURSIVE ParseVersion(_)
ParseVersion(s) ==
    LET dot == IndexOf(s, ".")
    IN  IF dot = 0
        THEN <<ParseInt(s)>>
        ELSE <<ParseInt(SubSeq(s, 1, dot - 1))>> \o ParseVersion(SubSeq(s, dot + 1, Len(s)))

IsRelease(s) ==
    /\ s # <<>>
    /\ \A i \in 1..Len(s) : s[i] \in Digits \cup {"."}
    /\ s[1] # "." /\ s[Len(s)] # "."

Segment(v, i) == IF i <= Len(v) THEN v[i] ELSE 0

\* Releases compare number by number, a missing number counting as 0.
VersionAtLeast(v, w) ==
    LET n == IF Len(v) >= Len(w) THEN Len(v) ELSE Len(w)
    IN  \/ \A i \in 1..n : Segment(v, i) = Segment(w, i)
        \/ \E i \in 1..n :
              /\ Segment(v, i) > Segment(w, i)
              /\ \A j \in 1..(i - 1) : Segment(v, j) = Segment(w, j)

\* A version against a ">=X.Y" specifier.
Satisfies(v, specifier) ==
    /\ StartsWith(specifier, <<">", "=">>)
    /\ IsRelease(SubSeq(specifier, 3, Len(specifier)))
    /\ VersionAtLeast(v, ParseVersion(SubSeq(specifier, 3, Len(specifier))))

\* "Programming Language :: Python :: "
PythonClassifierPrefix == <<"P","r","o","g","r","a","m","m","i","n","g"," ","L","a","n","g","u","a","g","e"," ",":",":"," ","P","y","t","h","o","n"," ",":",":"," ">>

\* The X.Y of the classifiers "Programming Language :: Python :: X.Y".
ClassifierVersions(cs) ==
    {SubSeq(cs[i], Len(PythonClassifierPrefix) + 1, Len(cs[i])) :
        i \in {j \in 1..Len(cs) :
                 /\ StartsWith(cs[j], PythonClassifierPrefix)
                 /\ IndexOf(SubSeq(cs[j], Len(PythonClassifierPrefix) + 1, Len(cs[j])), ".") # 0}}

----------------------------------------------------------------------------
(* The lines of a text, stated by position *)

\* The positions at which a line of the text starts.
LineStarts(text) ==
    {i \in 1..Len(text) : i = 1 \/ text[i - 1] = "\n"}

\* The position at which the line starting at i ends.
LineEnd(text, i) ==
    IF \E j \in i..Len(text) : text[j] = "\n"
    THEN CHOOSE j \in i..Len(text) : text[j] = "\n" /\ \A k \in i..(j - 1) : text[k] # "\n"
    ELSE Len(text)

\* The n-th line of the text.
LineAt(text, n) ==
    LET i == CHOOSE s \in LineStarts(text) : Cardinality({x \in LineStarts(text) : x < s}) = n - 1
    IN  SubSeq(text, i, LineEnd(text, i))

LinesOf(text) == [n \in 1..Cardinality(LineStarts(text)) |-> LineAt(text, n)]

WhitespaceOnly(s) == \A i \in 1..Len(s) : s[i] \in Whitespace

\* e is s without its leading and trailing whitespace.
IsStripped(e, s) ==
    \E i \in 1..Len(s) : \E j \in i..Len(s) :
        /\ e = SubSeq(s, i, j)
        /\ s[i] \notin Whitespace
        /\ s[j] \notin Whitespace
        /\ \A k \in 1..(i - 1) : s[k] \in Whitespace
        /\ \A k \in (j + 1)..Len(s) : s[k] \in Whitespace

\* A line that is not whitespace-only and whose first character is not "#".
IsRequirementLine(line) == ~WhitespaceOnly(line) /\ line[1] # "#"

\* e occurs in the text as a run of consecutive characters.
OccursIn(e, text) ==
    \E i \in 1..(Len(text) + 1) : i + Len(e) - 1 <= Len(text) /\ SubSeq(text, i, i + Len(e) - 1) = e

Manifest == fs[REQUIREMENTS].text

----------------------------------------------------------------------------
(* Claims *)

\* C1: every setup() call registers exactly one console script, the command
\* claude-agents bound to the function main of the module scripts.run_demo,
\* and declares no entry-point group other than console_scripts.
C1_SingleConsoleScript ==
    \A c \in 1..Len(calls) :
        LET eps == calls[c].entry_points
        IN  /\ DOMAIN eps = {"console_scripts"}
            /\ Len(eps.console_scripts) = 1
            /\ ParseEntryPoint(eps.console_scripts[1]) =
                  [name |-> <<"c","l","a","u","d","e","-","a","g","e","n","t","s">>,
                   module |-> <<"s","c","r","i","p","t","s",".","r","u","n","_","d","e","m","o">>,
                   attr |-> <<"m","a","i","n">>]

C1_Witness ==
    /\ pc = "done"
    /\ Len(calls) = 1
    /\ IndexOf(calls[1].entry_points.console_scripts[1], ":") # 0

\* C2: install_requires of every setup() call is the list computed from the
\* lines of requirements.txt and nothing else: it is the module global
\* requirements, every entry of it is text of the manifest, and an empty
\* manifest gives an empty list.
C2_InstallRequiresFromManifest ==
    \A c \in 1..Len(calls) :
        LET ir == calls[c].install_requires
        IN  /\ fs[REQUIREMENTS].state = "text"
            /\ ir = requirements
            /\ ir = Requirements(LinesOf(Manifest))
            /\ \A k \in 1..Len(ir) : OccursIn(ir[k], Manifest)
            /\ Manifest = <<>> => ir = <<>>

C2_Witness ==
    /\ Len(calls) = 1
    /\ Len(calls[1].install_requires) = 2
    /\ calls[1].install_requires[1] # calls[1].install_requires[2]

\* C3: extras_require of every setup() call has exactly the groups dev and
\* docs, whatever requirements.txt holds: dev names pytest, pytest-cov,
\* black, flake8 and mypy, docs names sphinx and sphinx-rtd-theme, and no
\* project is named in both.
C3_ExtrasGroups ==
    \A c \in 1..Len(calls) :
        LET ex == calls[c].extras_require
        IN  /\ DOMAIN ex = {"dev", "docs"}
            /\ Names(ex.dev) = {<<"p","y","t","e","s","t">>,
                                <<"p","y","t","e","s","t","-","c","o","v">>,
                                <<"b","l","a","c","k">>,
                                <<"f","l","a","k","e","8">>,
                                <<"m","y","p","y">>}
            /\ Names(ex.docs) = {<<"s","p","h","i","n","x">>,
                                 <<"s","p","h","i","n","x","-","r","t","d","-","t","h","e","m","e">>}
            /\ Names(ex.dev) \cap Names(ex.docs) = {}

C3_Witness ==
    /\ Len(calls) = 1
    /\ calls[1].install_requires # <<>>
    /\ Len(calls[1].extras_require.dev) = 5
    /\ Len(calls[1].extras_require.docs) = 2

\* C4: python_requires of every setup() call is ">=3.8", the versioned
\* Python classifiers are those of 3.8, 3.9, 3.10 and 3.11 and each satisfies
\* python_requires, and the other computed arguments are the values bound
\* before the call (the description read, the requirement list, the
\* packages found).
C4_ClassifiersSatisfyPythonRequires ==
    \A c \in 1..Len(calls) :
        LET vs == ClassifierVersions(calls[c].classifiers)
        IN  /\ calls[c].python_requires = <<">", "=", "3", ".", "8">>
            /\ \A v \in vs : IsRelease(v) /\ Satisfies(ParseVersion(v), calls[c].python_requires)
            /\ {ParseVersion(v) : v \in vs} = {<<3, 8>>, <<3, 9>>, <<3, 10>>, <<3, 11>>}
            /\ calls[c].long_description = long_description
            /\ calls[c].install_requires = requirements
            /\ calls[c].packages = packagesFound

C4_Witness ==
    /\ Len(calls) = 1
    /\ \E v \in ClassifierVersions(calls[1].classifiers) : ParseVersion(v) = <<3, 10>>

\* C5: no entry of the requirement list passed to setup() as
\* install_requires begins with "#".
C5_NoCommentRequirement ==
    \A c \in 1..Len(calls) :
        \A k \in 1..Len(calls[c].install_requires) :
            ~StartsWith(calls[c].install_requires[k], <<"#">>)

\* C6: once bound, requirements is the manifest's lines that are not
\* whitespace-only and do not start with "#", each stripped, in file order
\* with duplicates kept; so every entry is non-empty, has no whitespace at
\* either end, and the list is no longer than the file has lines.
C6_RequirementsAreFilteredLines ==
    "requirements" \in bound =>
        LET lines == LinesOf(Manifest)
            kept == SelectSeq(lines, IsRequirementLine)
        IN  /\ Len(requirements) = Len(kept)
            /\ \A k \in 1..Len(kept) : IsStripped(requirements[k], kept[k])
            /\ \A k \in 1..Len(requirements) :
                  /\ requirements[k] # <<>>
                  /\ requirements[k][1] \notin Whitespace
                  /\ requirements[k][Len(requirements[k])] \notin Whitespace
            /\ Len(requirements) <= Len(lines)

C6_Witness ==
    /\ "requirements" \in bound
    /\ Len(LinesOf(Manifest)) = 3
    /\ Len(requirements) = 2
    /\ requirements[1] = requirements[2]

\* C7: setup() is called at most once, and only after README.md and then
\* requirements.txt were opened and read, in that order; with README.md
\* missing requirements.txt is never opened and setup() never called, with
\* requirements.txt missing setup() is never called, and the script ends with
\* the exception, no default standing in for what could not be read.
C7_SetupOnlyAfterBothFilesRead ==
    /\ Len(calls) <= 1
    /\ calls # <<>> =>
          /\ events = <<Event("open", README), Event("read", README),
                        Event("open", REQUIREMENTS), Event("read", REQUIREMENTS),
                        Event("setup", "none")>>
          /\ exception = "none"
    /\ fs[README].state = "absent" =>
          /\ \A i \in 1..Len(events) : events[i].file # REQUIREMENTS
          /\ calls = <<>>
          /\ pc \in {"L4", "raised"}
          /\ pc = "raised" => exception = "FileNotFoundError"
    /\ fs[REQUIREMENTS].state = "absent" =>
          /\ calls = <<>>
          /\ pc \notin {"L8", "L10", "done"}
          /\ "requirements" \notin bound
    /\ pc = "raised" => exception # "none" /\ calls = <<>>
    /\ pc = "done" => fs[README].state = "text" /\ fs[REQUIREMENTS].state = "text"

C7_Witness ==
    /\ pc = "raised"
    /\ exception = "FileNotFoundError"
    /\ fs[REQUIREMENTS].state = "absent"
    /\ events = <<Event("open", README), Event("read", README)>>

====
